---- MODULE Spec2Model ----
(***************************************************************************)
(* Stream notification for mac: the polling / notification session.        *)
(*                                                                         *)
(* The model follows two revisions of the session object that live side    *)
(* by side in the repository,                                              *)
(*   variant "sn"  : StreamNotification     (src/src/stream_notification.py)*)
(*   variant "app" : StreamNotificationApp  (src/src/main.py)              *)
(* both on top of TwitchAPI (src/src/twitch/twitch.py).                    *)
(*                                                                         *)
(* One action is one step of one asyncio task: the code a task runs        *)
(* between two suspension points (await) of the single event loop.         *)
(* Tasks: the main coroutine (notification_run / async_main), the run()    *)
(* task, the poller task (check_stream_status) and the cleanup tasks       *)
(* created by handle_signal.                                               *)
(*                                                                         *)
(* Modelling decisions:                                                    *)
(*  - check_streamer_existence calls get_broadcaster_id(username) while    *)
(*    twitch.py:159 declares (name, save_path).  The call is taken to bind *)
(*    (the lookup and the image download of twitch.py:159-172 are run).    *)
(*  - handle_signal is installed by main.py:185-186; for variant "sn" it   *)
(*    is taken to be installed at the same point (entering run()'s try).   *)
(*  - await session.close() may or may not suspend (library dependent):    *)
(*    both are modelled; while it is suspended the session object is       *)
(*    closed but self.session is still set (session = "closed").           *)
(*  - when the main coroutine has ended the event loop is gone: no task    *)
(*    takes a further step.                                                *)
(*  - the event loop runs ready callbacks before I/O and timers that       *)
(*    complete later: a cleanup task made by handle_signal takes its first *)
(*    step before any response dispatched after the signal (IoDispatched). *)
(*  - src/regular_execution/main.py calls the coroutines of its TwitchAPI  *)
(*    without await, so no session of that revision runs; it is not a      *)
(*    variant of the state machine.                                        *)
(*  - src/setup.py is a second entry point of variant "sn".  It reads      *)
(*    app.terminal and app.cleanup_complete_event, which the               *)
(*    StreamNotification of src/src/stream_notification.py does not have:  *)
(*    its coroutine ends with AttributeError where it reads them.  Which   *)
(*    entry point started a session is not recorded; where both take the   *)
(*    same step the state is the same.                                     *)
(***************************************************************************)
EXTENDS Integers, Sequences, FiniteSets, TLC

\* ---------------------------------------------------------------- bounds
\* number of get_stream_by_name calls one session may start
MaxPolls == 6
\* number of signals delivered to handle_signal in one session
MaxSignals == 2
\* number of tasks that call one TwitchAPI object concurrently
MaxCallers == 2
\* number of access tokens the token endpoint issues to one TwitchAPI object
MaxTokens == 2
\* length of the login and display names passed to format_display_message
MaxNameLen == 2

\* ------------------------------------------------------ program constants
CHECK_INTERVAL == 60
STREAMING_INTERVAL == 3600

None == "None"

\* Python truthiness of a str | None value
Truthy(x) == x \notin {None, ""}

Variants == {"sn", "app"}
\* NotificationFormat members (values "Notification", "Dialog")
NotificationFormat == {"notification", "dialog"}

\* callers of cleanup(): run()'s finally block and the tasks of handle_signal
SignalTasks == 1..MaxSignals
\* run()'s own cleanup() call is invocation 0
RunCaller == 0
Callers == {RunCaller} \cup SignalTasks

\* tasks that call the methods of one TwitchAPI object directly
ApiCallers == 1..MaxCallers
\* the access tokens the token endpoint issues, in the order it issues them
TokenNames == <<"tok", "tok2", "tok3", "tok4">>

VARIABLES
    \* process configuration
    variant,                  \* which revision of the session object runs
    display_format,           \* the NotificationFormat the user selects
    compiled,                 \* "__compiled__" in globals()
    no_terminal,              \* "--no-terminal" in sys.argv
    \* StreamNotification fields
    is_running,
    cleanup_tasks,            \* _cleanup_tasks
    cleanup_compelete_event,
    \* TwitchAPI fields
    session,                  \* "none" | "open" | "closed"
    access_token,
    token_lock,               \* "free" or the holder
    \* tasks
    main_pc,
    run_pc,
    run_exc,                  \* run() ends by raising
    poller_pc,
    poller_result,            \* "none" | "returned" | "cancelled" | "raised"
    must_cancel,              \* cancel() was called on the poller task
    cl_pc,                    \* position of each cleanup() invocation
    handlers_installed,
    nsig,
    \* observations
    lookup,                   \* what the users endpoint answered
    shown,                    \* messages of check_streamer_existence
    found_style,              \* notifier used for the "found" message
    terminal,                 \* "none" | "launched" | "closed"
    polls,                    \* get_stream_by_name calls started
    quit_polls,               \* calls started since the quit input, counted up
                              \* to 2 (-1: no quit input)
    stream_response,          \* what the streams endpoint answered last
    stream_exc,               \* exception the last get_stream_by_name call raised
    stream_result,            \* what get_stream_by_name returned last
    obs,                      \* per observation: was it live
    notes,                    \* observations at which the notifier was called
    note_style,               \* notifier used for the stream-start messages
    note_outcome,             \* how the notifier of the last observation ended
    interval,                 \* duration of the poller's current/last sleep
    cancel_count,
    close_count,
    set_count,
    \* tasks calling TwitchAPI directly
    call_pc,                  \* position of each caller inside its call
    call_op,                  \* the method it called last
    call_result,              \* how that call ended
    call_null,                \* callers whose call began with no cached token
    waited,                   \* callers whose call waited for _token_lock
    sent_token,               \* Authorization token of each caller's last GET
    issued,                   \* tokens issued so far
    rejected,                 \* tokens the service answered with 401
    \* one call of format_display_message
    fmt_revision,             \* the revision whose method is called
    username,
    display_name,
    stream_title,
    message,                  \* the returned str
    fmt_done                  \* the call has returned

vars == <<variant, display_format, compiled, no_terminal, is_running,
          cleanup_tasks, cleanup_compelete_event, session, access_token,
          token_lock, main_pc, run_pc, run_exc, poller_pc, poller_result,
          must_cancel, cl_pc, handlers_installed, nsig, lookup, shown,
          found_style, terminal, polls, quit_polls, stream_response, stream_exc,
          stream_result,
          obs,
          notes, note_style, note_outcome, interval, cancel_count, close_count,
          set_count, call_pc, call_op, call_result, call_null, waited,
          sent_token, issued, rejected, fmt_revision, username, display_name,
          stream_title, message, fmt_done>>

configVars == <<variant, display_format, compiled, no_terminal>>
apiVars == <<session, access_token, token_lock>>
cleanupVars == <<is_running, cl_pc, must_cancel, session, access_token,
                 cleanup_compelete_event, cancel_count, close_count, set_count>>
pollerVars == <<poller_pc, poller_result, polls, quit_polls, stream_response,
                stream_exc,
                stream_result,
                obs, notes, note_style, note_outcome, interval>>
existVars == <<lookup, shown, found_style>>
clientVars == <<call_pc, call_op, call_result, call_null, waited, sent_token,
                issued, rejected>>
formatVars == <<fmt_revision, username, display_name, stream_title, message,
                fmt_done>>
\* the state of the specifications that call one component directly
directVars == <<clientVars, formatVars>>
\* the state of the session object and of its tasks, TwitchAPI fields excluded
sessionVars == <<configVars, is_running, cleanup_tasks, cleanup_compelete_event,
                 main_pc, run_pc, run_exc, must_cancel, cl_pc,
                 handlers_installed, nsig, pollerVars, existVars, terminal,
                 cancel_count, close_count, set_count>>

\* the event loop runs while the main coroutine has not ended
LoopAlive == main_pc # "done"

\* The event loop runs the callbacks that are ready, in the order they were
\* queued, before it dispatches the I/O and the timers that complete later: the
\* first step of a task made by handle_signal's create_task precedes every
\* response, subprocess exit and timer dispatched after the signal.
IoDispatched == \A k \in SignalTasks : cl_pc[k] # "pending"

\* ------------------------------------------------------------ TwitchAPI

\* answers of the "get users" endpoint to one GET
UserResponses ==
    { [status |-> "ok", data |-> <<>>],
      [status |-> "ok", data |-> <<[id |-> "1", profile_image_url |-> "url"]>>],
      [status |-> "ok", data |-> <<[id |-> "1", profile_image_url |-> None]>>],
      [status |-> "client_error", data |-> <<>>],
      [status |-> "timeout", data |-> <<>>] }

\* answers of the "get streams" endpoint to one GET
StreamResponses ==
    { [status |-> "ok", data |-> <<>>],
      [status |-> "ok", data |-> <<[user_name |-> "Alice", title |-> "Coding"]>>],
      [status |-> "ok", data |-> <<[user_name |-> "", title |-> "Coding"]>>],
      [status |-> "ok", data |-> <<[user_name |-> "Alice", title |-> ""]>>],
      [status |-> "client_error", data |-> <<>>],
      [status |-> "timeout", data |-> <<>>] }

\* _make_request: aiohttp.ClientError (transport failure, non-2xx status raised
\* by raise_for_status inside the context) becomes TwitchAPIError; the total
\* timeout raises asyncio.TimeoutError, which is no ClientError and passes.
RaisesTwitchAPIError(resp) == resp.status = "client_error"
RaisesOther(resp) == resp.status = "timeout"

\* _get_stream_data
GetStreamData(stream_data) == <<stream_data[1].user_name, stream_data[1].title>>

\* get_stream_by_name: the value returned for a response that does not make
\* it raise (TwitchAPIError is caught and turned into (None, None))
GetStreamByName(resp) ==
    IF RaisesTwitchAPIError(resp) THEN <<None, None>>
    ELSE IF resp.data = <<>> THEN <<None, None>>
    ELSE GetStreamData(resp.data)

\* an observation is live when it carries a display name and a title
ObservedLive(result) == Truthy(result[1]) /\ Truthy(result[2])

\* a poller that takes the title alone as the sign of a live stream
IsLive_TitleOnly(result) == Truthy(result[2])

\* a poller that takes the display name alone as the sign of a live stream
IsLive_NameOnly(result) == Truthy(result[1])

\* the poller's test "if display_name and stream_title"
IsLive(result) == Truthy(result[1]) /\ Truthy(result[2])

\* ------------------------------------------------------------- cleanup

\* cleanup(): self.cleanup_compelete_event.set() and return
CleanupSetEvent(c) ==
    /\ cleanup_compelete_event' = TRUE
    /\ set_count' = set_count + 1
    /\ cl_pc' = [cl_pc EXCEPT ![c] = "done"]

\* a close() that sets self.session = None before it awaits session.close()
\* and drops the token after it
CleanupClose_SessionFirst(c) ==
    IF session = "none"
    THEN /\ UNCHANGED <<session, access_token, close_count>>
         /\ CleanupSetEvent(c)
    ELSE /\ close_count' = close_count + (IF session = "open" THEN 1 ELSE 0)
         /\ session' = "none"
         /\ cl_pc' = [cl_pc EXCEPT ![c] = "closing"]
         /\ UNCHANGED <<access_token, cleanup_compelete_event, set_count>>

\* cleanup(): await self.twitch_api.close(), then the event
CleanupClose(c) ==
    IF session = "none"
    THEN /\ UNCHANGED <<session, access_token, close_count>>
         /\ CleanupSetEvent(c)
    ELSE /\ close_count' = close_count + (IF session = "open" THEN 1 ELSE 0)
         /\ \/ /\ session' = "closed"
               /\ cl_pc' = [cl_pc EXCEPT ![c] = "closing"]
               /\ UNCHANGED <<access_token, cleanup_compelete_event, set_count>>
            \/ /\ session' = "none"
               /\ access_token' = None
               /\ CleanupSetEvent(c)

\* cleanup() below its guard, up to its first suspension: the flag is cleared,
\* every task that is not done is cancelled and awaited, then close() is called
CleanupBody(c) ==
    /\ is_running' = FALSE
    /\ IF cleanup_tasks # <<>> /\ poller_pc # "done"
       THEN /\ must_cancel' = TRUE
            /\ cancel_count' = cancel_count + 1
            /\ cl_pc' = [cl_pc EXCEPT ![c] = "await_task"]
            /\ UNCHANGED <<session, access_token, cleanup_compelete_event,
                           close_count, set_count>>
       ELSE /\ UNCHANGED <<must_cancel, cancel_count>>
            /\ CleanupClose(c)

\* a cleanup() that lacks the guard "if not self.is_running: return"
Cleanup_Unguarded(c) == CleanupBody(c)

\* cleanup() from its first line to its first suspension
Cleanup(c) ==
    IF ~is_running
    THEN /\ cl_pc' = [cl_pc EXCEPT ![c] = "done"]
         /\ UNCHANGED <<is_running, must_cancel, session, access_token,
                        cleanup_compelete_event, cancel_count, close_count,
                        set_count>>
    ELSE CleanupBody(c)

\* run() returns as soon as its own cleanup() call has returned
RunAfterCleanup(c) ==
    run_pc' = IF c = RunCaller /\ cl_pc'[c] = "done" THEN "done" ELSE run_pc

\* cleanup(): "await task" returns (CancelledError suppressed)
CleanupTaskAwaited(c) ==
    /\ LoopAlive
    /\ cl_pc[c] = "await_task"
    /\ poller_pc = "done"
    /\ CleanupClose(c)
    /\ RunAfterCleanup(c)
    /\ UNCHANGED <<is_running, must_cancel, cancel_count>>
    /\ UNCHANGED <<configVars, cleanup_tasks, token_lock, main_pc, run_exc,
                   pollerVars, handlers_installed, nsig, existVars, terminal>>
    /\ UNCHANGED directVars

\* a close() that sets self.session = None and keeps the cached token
CleanupCloseAwaited_KeepsToken(c) ==
    /\ LoopAlive
    /\ cl_pc[c] = "closing"
    /\ session' = "none"
    /\ UNCHANGED access_token
    /\ CleanupSetEvent(c)
    /\ RunAfterCleanup(c)
    /\ UNCHANGED <<is_running, must_cancel, cancel_count, close_count>>
    /\ UNCHANGED <<configVars, cleanup_tasks, token_lock, main_pc, run_exc,
                   pollerVars, handlers_installed, nsig, existVars, terminal>>
    /\ UNCHANGED directVars

\* close(): "await self.session.close()" returns
CleanupCloseAwaited(c) ==
    /\ LoopAlive
    /\ cl_pc[c] = "closing"
    /\ session' = "none"
    /\ access_token' = None
    /\ CleanupSetEvent(c)
    /\ RunAfterCleanup(c)
    /\ UNCHANGED <<is_running, must_cancel, cancel_count, close_count>>
    /\ UNCHANGED <<configVars, cleanup_tasks, token_lock, main_pc, run_exc,
                   pollerVars, handlers_installed, nsig, existVars, terminal>>
    /\ UNCHANGED directVars

\* handle_signal: loop.create_task(self.cleanup())
HandleSignal ==
    /\ LoopAlive
    /\ handlers_installed
    /\ nsig < MaxSignals
    /\ nsig' = nsig + 1
    /\ cl_pc' = [cl_pc EXCEPT ![nsig + 1] = "pending"]
    /\ UNCHANGED <<configVars, is_running, cleanup_tasks, cleanup_compelete_event,
                   apiVars, main_pc, run_pc, run_exc, must_cancel,
                   handlers_installed, pollerVars, existVars, terminal,
                   cancel_count, close_count, set_count>>
    /\ UNCHANGED directVars

\* first step of a cleanup task created by handle_signal
CleanupTaskStart(k) ==
    /\ LoopAlive
    /\ cl_pc[k] = "pending"
    /\ Cleanup(k)
    /\ UNCHANGED <<configVars, cleanup_tasks, token_lock, main_pc, run_pc, run_exc,
                   pollerVars, handlers_installed, nsig, existVars, terminal>>
    /\ UNCHANGED directVars

\* ------------------------------------------------------------- notifier

\* how one run of an osascript notifier ends
\* ("os_error": an OSError other than FileNotFoundError when the script is started)
NotifierOutcomes == {"ok", "subprocess_error", "file_not_found", "os_error"}

\* _run_notification_script / _run_dialog_script / _run_starting_dialog_script:
\* stream_notification.py catches subprocess.SubprocessError only,
\* main.py catches (subprocess.SubprocessError, FileNotFoundError)
NotifierCaught(v, n) ==
    \/ n = "subprocess_error"
    \/ v = "app" /\ n = "file_not_found"

\* check_stream_status: which script sends the stream-start message
StreamStartStyle(v, fmt) ==
    IF v = "app" THEN "notification"
    ELSE IF fmt = "notification" THEN "notification" ELSE "dialog"

\* check_streamer_existence: which script sends the "found" message.
\* stream_notification.py compares the enum member with the str "Notification",
\* which is never equal, so the starting dialog is always used.
FoundStyle(v, fmt) ==
    IF v = "app" THEN "notification" ELSE "dialog"

\* -------------------------------------------------------------- poller

\* the poller task ends
PollerEnds(how) ==
    /\ poller_pc' = "done"
    /\ poller_result' = how

\* a poller that sleeps the short interval whatever it observed
PollerSleeps_AlwaysShort(seconds) ==
    /\ poller_pc' = "sleep"
    /\ interval' = CHECK_INTERVAL
    /\ UNCHANGED poller_result

\* asyncio.sleep(seconds) in check_stream_status
PollerSleeps(seconds) ==
    /\ poller_pc' = "sleep"
    /\ interval' = seconds
    /\ UNCHANGED poller_result

\* a poller whose handler starts the next iteration at once
PollerRaises_NoSleep(v) ==
    /\ poller_pc' = "ready"
    /\ UNCHANGED <<poller_result, interval>>

\* an exception other than TwitchAPIError or CancelledError inside one loop
\* iteration: stream_notification.py has no handler (the task ends with it),
\* main.py catches Exception and sleeps CHECK_INTERVAL
PollerRaises(v) ==
    IF v = "app" THEN PollerSleeps(CHECK_INTERVAL)
    ELSE PollerEnds("raised") /\ UNCHANGED interval

\* a poller that loops "while True"
LoopTest_Always == TRUE

\* check_stream_status: "while self.is_running"
LoopTest == is_running

\* check_stream_status: the loop test and the start of get_stream_by_name
CheckStreamStatusLoop ==
    /\ LoopAlive
    /\ ~must_cancel
    /\ poller_pc \in {"ready", "sleep"}
    /\ poller_pc = "sleep" => IoDispatched
    /\ IF ~LoopTest
       THEN /\ PollerEnds("returned")
            /\ UNCHANGED <<polls, quit_polls, stream_response, stream_exc,
                           stream_result, obs,
                           interval>>
       ELSE /\ polls < MaxPolls
            /\ polls' = polls + 1
            /\ quit_polls' = IF quit_polls \in {0, 1} THEN quit_polls + 1
                                                        ELSE quit_polls
            /\ IF session = "none"
               THEN \* _make_request raises TwitchAPIError, caught: (None, None)
                    /\ stream_result' = <<None, None>>
                    /\ obs' = Append(obs, FALSE)
                    /\ PollerSleeps(CHECK_INTERVAL)
                    /\ stream_exc' = "none"
                    /\ UNCHANGED stream_response
               ELSE IF session = "closed"
               THEN \* session.get on a closed session: RuntimeError
                    /\ PollerRaises(variant)
                    /\ stream_exc' = "RuntimeError"
                    /\ UNCHANGED <<stream_response, stream_result, obs>>
               ELSE /\ access_token # None
                    /\ token_lock = "free"
                    /\ poller_pc' = "get_wait"
                    /\ UNCHANGED <<poller_result, stream_response, stream_exc,
                                   stream_result,
                                   obs, interval>>
    /\ UNCHANGED <<notes, note_style, note_outcome>>
    /\ UNCHANGED <<configVars, cleanup_tasks, apiVars, main_pc, run_pc, run_exc,
                   handlers_installed, nsig, existVars, terminal>>
    /\ UNCHANGED <<is_running, cl_pc, must_cancel, cleanup_compelete_event,
                   cancel_count, close_count, set_count>>
    /\ UNCHANGED directVars

\* check_stream_status: get_stream_by_name returns (or raises) and the
\* iteration runs up to its next suspension
CheckStreamStatusResponse ==
    /\ LoopAlive
    /\ ~must_cancel
    /\ poller_pc = "get_wait"
    /\ IoDispatched
    /\ \E resp \in StreamResponses, n \in NotifierOutcomes :
         /\ stream_response' = resp.status
         /\ stream_exc' = IF RaisesOther(resp) THEN "TimeoutError" ELSE "none"
         /\ IF RaisesOther(resp)
            THEN /\ PollerRaises(variant)
                 /\ note_outcome' = "none"
                 /\ UNCHANGED <<stream_result, obs, notes, note_style>>
            ELSE LET result == GetStreamByName(resp) IN
                 /\ stream_result' = result
                 /\ obs' = Append(obs, ObservedLive(result))
                 /\ IF IsLive(result)
                    THEN /\ notes' = notes \cup {Len(obs)}
                         /\ note_style' = StreamStartStyle(variant, display_format)
                         /\ note_outcome' = n
                         /\ IF n = "ok"
                            THEN /\ poller_pc' = "notify_wait"
                                 /\ UNCHANGED <<poller_result, interval>>
                            ELSE IF NotifierCaught(variant, n)
                            THEN /\ poller_pc' = IF variant = "app"
                                                 THEN "notify_fail_yield"
                                                 ELSE "msg_yield"
                                 /\ UNCHANGED <<poller_result, interval>>
                            ELSE PollerRaises(variant)
                    ELSE /\ PollerSleeps(CHECK_INTERVAL)
                         /\ note_outcome' = "none"
                         /\ UNCHANGED <<notes, note_style>>
    /\ UNCHANGED <<polls, quit_polls>>
    /\ UNCHANGED <<configVars, cleanup_tasks, apiVars, main_pc, run_pc, run_exc,
                   handlers_installed, nsig, existVars, terminal>>
    /\ UNCHANGED <<is_running, cl_pc, must_cancel, cleanup_compelete_event,
                   cancel_count, close_count, set_count>>
    /\ UNCHANGED directVars

\* check_stream_status: the notifier script has ended (proc.communicate())
CheckStreamStatusNotified ==
    /\ LoopAlive
    /\ ~must_cancel
    /\ poller_pc \in {"notify_wait", "notify_fail_yield"}
    /\ poller_pc = "notify_wait" => IoDispatched
    /\ poller_pc' = "msg_yield"
    /\ UNCHANGED <<poller_result, polls, quit_polls, stream_response, stream_exc,
                   stream_result, obs,
                   notes, note_style, note_outcome, interval>>
    /\ UNCHANGED <<configVars, cleanup_tasks, apiVars, main_pc, run_pc, run_exc,
                   handlers_installed, nsig, existVars, terminal>>
    /\ UNCHANGED <<is_running, cl_pc, must_cancel, cleanup_compelete_event,
                   cancel_count, close_count, set_count>>
    /\ UNCHANGED directVars

\* check_stream_status: display_message(message) has yielded, the long sleep starts
CheckStreamStatusStreaming ==
    /\ LoopAlive
    /\ ~must_cancel
    /\ poller_pc = "msg_yield"
    /\ PollerSleeps(STREAMING_INTERVAL)
    /\ UNCHANGED <<polls, quit_polls, stream_response, stream_exc, stream_result,
                   obs, notes,
                   note_style,
                   note_outcome>>
    /\ UNCHANGED <<configVars, cleanup_tasks, apiVars, main_pc, run_pc, run_exc,
                   handlers_installed, nsig, existVars, terminal>>
    /\ UNCHANGED <<is_running, cl_pc, must_cancel, cleanup_compelete_event,
                   cancel_count, close_count, set_count>>
    /\ UNCHANGED directVars

\* a poller that treats the CancelledError like any other exception of an
\* iteration: it sleeps CHECK_INTERVAL and goes on
PollerCancelled_Swallowed ==
    /\ LoopAlive
    /\ must_cancel
    /\ poller_pc \notin {"none", "done", "sleep"}
    /\ PollerSleeps(CHECK_INTERVAL)
    /\ UNCHANGED <<polls, quit_polls, stream_response, stream_exc, stream_result,
                   obs, notes, note_style, note_outcome>>
    /\ UNCHANGED <<configVars, cleanup_tasks, apiVars, main_pc, run_pc, run_exc,
                   handlers_installed, nsig, existVars, terminal>>
    /\ UNCHANGED <<is_running, cl_pc, must_cancel, cleanup_compelete_event,
                   cancel_count, close_count, set_count>>
    /\ UNCHANGED directVars

\* the poller task receives the CancelledError of task.cancel() at the point
\* where it is suspended (or before its first step)
PollerCancelled ==
    /\ LoopAlive
    /\ must_cancel
    /\ poller_pc \notin {"none", "done"}
    /\ PollerEnds("cancelled")
    /\ UNCHANGED <<polls, quit_polls, stream_response, stream_exc, stream_result,
                   obs, notes,
                   note_style,
                   note_outcome, interval>>
    /\ UNCHANGED <<configVars, cleanup_tasks, apiVars, main_pc, run_pc, run_exc,
                   handlers_installed, nsig, existVars, terminal>>
    /\ UNCHANGED <<is_running, cl_pc, must_cancel, cleanup_compelete_event,
                   cancel_count, close_count, set_count>>
    /\ UNCHANGED directVars

\* The user enters the quit input while the poller polls or sleeps.  run()
\* awaits status_task alone and, past input_monitoring_settings, no task reads
\* the terminal: the input changes nothing in the session.
QuitInput ==
    /\ LoopAlive
    /\ poller_pc \in {"get_wait", "sleep"}
    /\ run_pc = "await_status_task"
    /\ quit_polls = -1
    /\ quit_polls' = 0
    /\ UNCHANGED <<poller_pc, poller_result, polls, stream_response, stream_exc,
                   stream_result, obs, notes, note_style, note_outcome, interval>>
    /\ UNCHANGED <<configVars, cleanup_tasks, apiVars, main_pc, run_pc, run_exc,
                   handlers_installed, nsig, existVars, terminal>>
    /\ UNCHANGED <<is_running, cl_pc, must_cancel, cleanup_compelete_event,
                   cancel_count, close_count, set_count>>
    /\ UNCHANGED directVars

\* ----------------------------------------------------------------- run

\* answers of the token endpoint / of the image host
TokenOutcomes == {"ok", "client_error", "timeout"}
ImageOutcomes == {"ok", "client_error", "timeout"}

\* what the users endpoint answered, as one word
LookupOf(resp) ==
    IF resp.status # "ok" THEN resp.status
    ELSE IF resp.data = <<>> THEN "empty" ELSE "found"

\* a step of run() that does not reach the finally block
RunGoto(pc) ==
    /\ run_pc' = pc
    /\ UNCHANGED run_exc
    /\ UNCHANGED cleanupVars

\* run(): the finally block, "await self.cleanup()"; exc: an exception is
\* propagating through it
RunFinally(exc) ==
    /\ Cleanup(RunCaller)
    /\ run_exc' = exc
    /\ run_pc' = IF cl_pc'[RunCaller] = "done" THEN "done" ELSE "cleanup"

\* a check_streamer_existence that reports not-found and yet returns True
ExistNotFound_ReturnsTrue ==
    /\ shown' = shown \cup {"not_found"}
    /\ RunGoto("exist_found_yield")

\* get_broadcaster_id returned None: "<username> not found." and return False
ExistNotFound ==
    /\ shown' = shown \cup {"not_found"}
    /\ RunGoto("exist_nf_yield")

\* an exception other than TwitchAPIError inside check_streamer_existence:
\* stream_notification.py lets it pass to run(), whose except clause names
\* KeyboardInterrupt and CancelledError only; main.py catches Exception,
\* shows "An unexpected error occurred." and returns False
ExistRaises(v) ==
    IF v = "app"
    THEN /\ shown' = shown \cup {"unexpected"}
         /\ RunGoto("exist_nf_yield")
    ELSE /\ UNCHANGED shown
         /\ RunFinally(TRUE)

\* get_broadcaster_id returned an id: the "found" message is sent
ExistFound(v, n) ==
    /\ found_style' = FoundStyle(v, display_format)
    /\ IF n = "ok"
       THEN UNCHANGED shown /\ RunGoto("exist_notify_wait")
       ELSE IF NotifierCaught(v, n)
       THEN IF v = "app"
            THEN \* "Failed to send notification" is displayed first
                 UNCHANGED shown /\ RunGoto("exist_fail_yield")
            ELSE shown' = shown \cup {"found"} /\ RunGoto("exist_found_yield")
       ELSE ExistRaises(v)

\* TwitchAPI.initialize, called by run() through self.initialize():
\* the session is created and the token request is sent
RunInitialize ==
    /\ LoopAlive
    /\ run_pc = "created"
    /\ IF session = "none"
       THEN /\ session' = "open"
            /\ token_lock = "free"
            /\ IF access_token = None
               THEN token_lock' = "run" /\ run_pc' = "init_token_wait"
               ELSE UNCHANGED token_lock /\ run_pc' = "input_wait"
       ELSE /\ run_pc' = "input_wait"
            /\ UNCHANGED <<session, token_lock>>
    /\ handlers_installed' = (run_pc' = "input_wait")
    /\ UNCHANGED <<access_token, run_exc>>
    /\ UNCHANGED <<configVars, cleanup_tasks, main_pc, pollerVars, nsig,
                   existVars, terminal>>
    /\ UNCHANGED <<is_running, cl_pc, must_cancel, cleanup_compelete_event,
                   cancel_count, close_count, set_count>>
    /\ UNCHANGED directVars

\* _get_access_token: the token request ends; on failure TwitchAPIError (or
\* the timeout) leaves initialize() and run() before the try block is entered
RunTokenResponse ==
    /\ LoopAlive
    /\ run_pc = "init_token_wait"
    /\ \E t \in TokenOutcomes :
         IF t = "ok"
         THEN /\ access_token' = "tok"
              /\ run_pc' = "input_wait"
              /\ handlers_installed' = TRUE
              /\ UNCHANGED run_exc
         ELSE /\ run_pc' = "done"
              /\ run_exc' = TRUE
              /\ UNCHANGED <<access_token, handlers_installed>>
    /\ token_lock' = "free"
    /\ UNCHANGED session
    /\ UNCHANGED <<configVars, cleanup_tasks, main_pc, pollerVars, nsig,
                   existVars, terminal>>
    /\ UNCHANGED <<is_running, cl_pc, must_cancel, cleanup_compelete_event,
                   cancel_count, close_count, set_count>>
    /\ UNCHANGED directVars

\* run(): the settings are entered; check_streamer_existence shows
\* "Please wait a moment." and yields
RunInput ==
    /\ LoopAlive
    /\ run_pc = "input_wait"
    /\ IoDispatched
    /\ RunGoto("exist_yield")
    /\ UNCHANGED <<configVars, cleanup_tasks, token_lock, main_pc, pollerVars,
                   handlers_installed, nsig, existVars, terminal>>
    /\ UNCHANGED directVars

\* check_streamer_existence: get_broadcaster_id starts the users request
CheckStreamerExistenceRequest ==
    /\ LoopAlive
    /\ run_pc = "exist_yield"
    /\ IF session = "none"
       THEN ExistNotFound
       ELSE IF session = "closed"
       THEN ExistRaises(variant)
       ELSE /\ access_token # None
            /\ token_lock = "free"
            /\ UNCHANGED shown
            /\ RunGoto("exist_get_wait")
    /\ UNCHANGED <<lookup, found_style>>
    /\ UNCHANGED <<configVars, cleanup_tasks, token_lock, main_pc, pollerVars,
                   handlers_installed, nsig, terminal>>
    /\ UNCHANGED directVars

\* get_broadcaster_id: the users request ends; download_profile_image starts
CheckStreamerExistenceResponse ==
    /\ LoopAlive
    /\ run_pc = "exist_get_wait"
    /\ IoDispatched
    /\ \E resp \in UserResponses, n \in NotifierOutcomes :
         /\ lookup' = LookupOf(resp)
         /\ IF RaisesOther(resp)
            THEN ExistRaises(variant) /\ UNCHANGED found_style
            ELSE IF RaisesTwitchAPIError(resp) \/ resp.data = <<>>
            THEN ExistNotFound /\ UNCHANGED found_style
            ELSE IF session = "none"
            THEN \* download_profile_image raises TwitchAPIError, caught
                 ExistNotFound /\ UNCHANGED found_style
            ELSE IF ~Truthy(resp.data[1].profile_image_url)
            THEN ExistFound(variant, n)
            ELSE IF session = "closed"
            THEN ExistRaises(variant) /\ UNCHANGED found_style
            ELSE UNCHANGED <<shown, found_style>> /\ RunGoto("exist_img_wait")
    /\ UNCHANGED <<configVars, cleanup_tasks, token_lock, main_pc, pollerVars,
                   handlers_installed, nsig, terminal>>
    /\ UNCHANGED directVars

\* download_profile_image: the image request ends
CheckStreamerExistenceImage ==
    /\ LoopAlive
    /\ run_pc = "exist_img_wait"
    /\ IoDispatched
    /\ \E i \in ImageOutcomes, n \in NotifierOutcomes :
         IF i = "ok" THEN ExistFound(variant, n)
         ELSE IF i = "client_error" THEN ExistNotFound /\ UNCHANGED found_style
         ELSE ExistRaises(variant) /\ UNCHANGED found_style
    /\ UNCHANGED lookup
    /\ UNCHANGED <<configVars, cleanup_tasks, token_lock, main_pc, pollerVars,
                   handlers_installed, nsig, terminal>>
    /\ UNCHANGED directVars

\* check_streamer_existence: the notifier of the "found" message has ended;
\* the message is displayed
CheckStreamerExistenceNotified ==
    /\ LoopAlive
    /\ run_pc \in {"exist_notify_wait", "exist_fail_yield"}
    /\ run_pc = "exist_notify_wait" => IoDispatched
    /\ shown' = shown \cup {"found"}
    /\ RunGoto("exist_found_yield")
    /\ UNCHANGED <<lookup, found_style>>
    /\ UNCHANGED <<configVars, cleanup_tasks, token_lock, main_pc, pollerVars,
                   handlers_installed, nsig, terminal>>
    /\ UNCHANGED directVars

\* a registration that re-arms the running flag for the new task
RegisterTask_Rearms(task) ==
    /\ cleanup_tasks' = Append(cleanup_tasks, task)
    /\ is_running' = TRUE

\* run(): self._cleanup_tasks.append(status_task)
RegisterTask(task) ==
    /\ cleanup_tasks' = Append(cleanup_tasks, task)
    /\ UNCHANGED is_running

\* a run() whose poller sleeps CHECK_INTERVAL before its first call
RunCreateStatusTask_SleepsFirst ==
    /\ LoopAlive
    /\ run_pc = "exist_found_yield"
    /\ poller_pc' = "sleep"
    /\ interval' = CHECK_INTERVAL
    /\ RegisterTask("status_task")
    /\ run_pc' = "await_status_task"
    /\ UNCHANGED <<run_exc, cl_pc, must_cancel, session, access_token,
                   cleanup_compelete_event, cancel_count, close_count, set_count>>
    /\ UNCHANGED <<poller_result, polls, quit_polls, stream_response, stream_exc,
                   stream_result, obs, notes, note_style, note_outcome>>
    /\ UNCHANGED <<configVars, token_lock, main_pc, handlers_installed, nsig,
                   existVars, terminal>>
    /\ UNCHANGED directVars

\* run(): check_streamer_existence returned True; the poller task is created
\* and registered, and run() awaits it
RunCreateStatusTask ==
    /\ LoopAlive
    /\ run_pc = "exist_found_yield"
    /\ poller_pc' = "ready"
    /\ RegisterTask("status_task")
    /\ run_pc' = "await_status_task"
    /\ UNCHANGED <<run_exc, cl_pc, must_cancel, session, access_token,
                   cleanup_compelete_event, cancel_count, close_count, set_count>>
    /\ UNCHANGED <<poller_result, polls, quit_polls, stream_response, stream_exc,
                   stream_result, obs,
                   notes, note_style, note_outcome, interval>>
    /\ UNCHANGED <<configVars, token_lock, main_pc, handlers_installed, nsig,
                   existVars, terminal>>
    /\ UNCHANGED directVars

\* a run() that checks again when check_streamer_existence returned False
RunNotFound_Retries ==
    /\ LoopAlive
    /\ run_pc = "exist_nf_yield"
    /\ RunGoto("exist_yield")
    /\ UNCHANGED <<configVars, cleanup_tasks, token_lock, main_pc, pollerVars,
                   handlers_installed, nsig, existVars, terminal>>
    /\ UNCHANGED directVars

\* run(): check_streamer_existence returned False: return, through finally
RunNotFound ==
    /\ LoopAlive
    /\ run_pc = "exist_nf_yield"
    /\ RunFinally(FALSE)
    /\ UNCHANGED <<configVars, cleanup_tasks, token_lock, main_pc, pollerVars,
                   handlers_installed, nsig, existVars, terminal>>
    /\ UNCHANGED directVars

\* run(): "await status_task" ends.  A cancelled task raises CancelledError,
\* which run() catches; another exception passes through stream_notification.py's
\* run() and is caught (except Exception) by main.py's
RunStatusTaskDone ==
    /\ LoopAlive
    /\ run_pc = "await_status_task"
    /\ poller_pc = "done"
    /\ RunFinally(poller_result = "raised" /\ variant = "sn")
    /\ UNCHANGED <<configVars, cleanup_tasks, token_lock, main_pc, pollerVars,
                   handlers_installed, nsig, existVars, terminal>>
    /\ UNCHANGED directVars

\* ---------------------------------------------------------------- main

\* a main coroutine that runs the core whatever the build and the flags are
MainStart_AlwaysRuns ==
    /\ main_pc = "start"
    /\ main_pc' = "await_run"
    /\ run_pc' = "created"
    /\ UNCHANGED terminal
    /\ UNCHANGED <<configVars, is_running, cleanup_tasks, cleanup_compelete_event,
                   apiVars, run_exc, must_cancel, cl_pc, handlers_installed, nsig,
                   pollerVars, existVars, cancel_count, close_count, set_count>>
    /\ UNCHANGED directVars

\* notification_run / async_main, up to "await run_task"
MainStart ==
    /\ main_pc = "start"
    /\ IF ~no_terminal /\ compiled
       THEN /\ main_pc' = "launching"
            /\ terminal' = "launched"
            /\ UNCHANGED run_pc
       ELSE /\ main_pc' = "await_run"
            /\ run_pc' = "created"
            /\ UNCHANGED terminal
    /\ UNCHANGED <<configVars, is_running, cleanup_tasks, cleanup_compelete_event,
                   apiVars, run_exc, must_cancel, cl_pc, handlers_installed, nsig,
                   pollerVars, existVars, cancel_count, close_count, set_count>>
    /\ UNCHANGED directVars

\* run_stream_notification of setup.py, up to "await run_task": the compiled
\* build without --no-terminal ends at app.terminal (AttributeError), a build
\* that is not compiled ends with sys.exit, the other builds run the core
SetupStart ==
    /\ main_pc = "start"
    /\ variant = "sn"
    /\ IF (~no_terminal /\ compiled) \/ ~compiled
       THEN /\ main_pc' = "done"
            /\ UNCHANGED run_pc
       ELSE /\ main_pc' = "await_run"
            /\ run_pc' = "created"
    /\ UNCHANGED terminal
    /\ UNCHANGED <<configVars, is_running, cleanup_tasks, cleanup_compelete_event,
                   apiVars, run_exc, must_cancel, cl_pc, handlers_installed, nsig,
                   pollerVars, existVars, cancel_count, close_count, set_count>>
    /\ UNCHANGED directVars

\* run_stream_notification of setup.py: "await run_task" has returned and
\* app.cleanup_complete_event raises AttributeError
SetupRunReturned ==
    /\ main_pc = "await_run"
    /\ run_pc = "done"
    /\ ~run_exc
    /\ variant = "sn"
    /\ compiled
    /\ no_terminal
    /\ main_pc' = "done"
    /\ UNCHANGED <<configVars, is_running, cleanup_tasks, cleanup_compelete_event,
                   apiVars, run_pc, run_exc, must_cancel, cl_pc,
                   handlers_installed, nsig, pollerVars, existVars, terminal,
                   cancel_count, close_count, set_count>>
    /\ UNCHANGED directVars

\* the main coroutine ends: launch_terminal has returned, run_task raised, or
\* close_terminal has returned
MainEnd ==
    /\ \/ main_pc = "launching"
       \/ main_pc = "await_run" /\ run_pc = "done" /\ run_exc
       \/ main_pc = "closing_terminal"
    /\ main_pc' = "done"
    /\ UNCHANGED <<configVars, is_running, cleanup_tasks, cleanup_compelete_event,
                   apiVars, run_pc, run_exc, must_cancel, cl_pc,
                   handlers_installed, nsig, pollerVars, existVars, terminal,
                   cancel_count, close_count, set_count>>
    /\ UNCHANGED directVars

\* "await run_task" returns; the main coroutine waits for the event
MainRunReturned ==
    /\ main_pc = "await_run"
    /\ run_pc = "done"
    /\ ~run_exc
    /\ main_pc' = "await_event"
    /\ UNCHANGED <<configVars, is_running, cleanup_tasks, cleanup_compelete_event,
                   apiVars, run_pc, run_exc, must_cancel, cl_pc,
                   handlers_installed, nsig, pollerVars, existVars, terminal,
                   cancel_count, close_count, set_count>>
    /\ UNCHANGED directVars

\* a main coroutine that closes the terminal as soon as run_task has returned
MainEventSet_NoWait ==
    /\ main_pc = "await_event"
    /\ IF variant = "app" \/ compiled
       THEN main_pc' = "closing_terminal" /\ terminal' = "closed"
       ELSE main_pc' = "done" /\ UNCHANGED terminal
    /\ UNCHANGED <<configVars, is_running, cleanup_tasks, cleanup_compelete_event,
                   apiVars, run_pc, run_exc, must_cancel, cl_pc,
                   handlers_installed, nsig, pollerVars, existVars,
                   cancel_count, close_count, set_count>>
    /\ UNCHANGED directVars

\* cleanup_compelete_event.wait() returns; the terminal is closed
\* (stream_notification.py: only when compiled)
MainEventSet ==
    /\ main_pc = "await_event"
    /\ cleanup_compelete_event
    /\ IF variant = "app" \/ compiled
       THEN main_pc' = "closing_terminal" /\ terminal' = "closed"
       ELSE main_pc' = "done" /\ UNCHANGED terminal
    /\ UNCHANGED <<configVars, is_running, cleanup_tasks, cleanup_compelete_event,
                   apiVars, run_pc, run_exc, must_cancel, cl_pc,
                   handlers_installed, nsig, pollerVars, existVars,
                   cancel_count, close_count, set_count>>
    /\ UNCHANGED directVars

\* ------------------------------------------- TwitchAPI called directly
\* The methods of one TwitchAPI object called by concurrent tasks, in any
\* order: initialize(), close() and _get_response() (the request made by
\* get_broadcaster_id, get_stream_by_id and get_stream_by_name).

\* what one authenticated GET is answered with ("unauthorized": HTTP 401)
GetStatuses == {"ok", "unauthorized", "client_error", "timeout"}

\* caller c is suspended at pc
ApiGoto(c, pc) == call_pc' = [call_pc EXCEPT ![c] = pc]

\* the call of caller c ends: "ok", "api_error" (TwitchAPIError raised) or
\* "raised" (another exception)
ApiReturns(c, how) ==
    /\ call_pc' = [call_pc EXCEPT ![c] = "idle"]
    /\ call_result' = [call_result EXCEPT ![c] = how]

\* _make_request after _ensure_access_token has returned:
\* self.session.get(url, headers=self._get_headers(), ...) with cached token tok
MakeRequestSend(c, sess, tok) ==
    IF sess = "none"
    THEN ApiReturns(c, "raised") /\ UNCHANGED sent_token
    ELSE IF tok = None
    THEN ApiReturns(c, "api_error") /\ UNCHANGED sent_token
    ELSE IF sess = "closed"
    THEN ApiReturns(c, "raised") /\ UNCHANGED sent_token
    ELSE /\ sent_token' = [sent_token EXCEPT ![c] = tok]
         /\ ApiGoto(c, "get_wait")
         /\ UNCHANGED call_result

\* what follows "await self._ensure_access_token()" in initialize() and in
\* _make_request
AfterEnsure(c, op, sess, tok) ==
    IF op = "initialize"
    THEN ApiReturns(c, "ok") /\ UNCHANGED sent_token
    ELSE MakeRequestSend(c, sess, tok)

\* an _ensure_access_token that gives up when no token is cached
EnsureLocked_NoRetry(c, op, sess) ==
    IF access_token # None
    THEN AfterEnsure(c, op, sess, access_token) /\ token_lock' = "free"
    ELSE ApiReturns(c, "api_error") /\ token_lock' = "free" /\ UNCHANGED sent_token

\* _ensure_access_token inside "async with self._token_lock":
\* "if not self.access_token: await self._get_access_token()"
EnsureLocked(c, op, sess) ==
    IF access_token # None
    THEN AfterEnsure(c, op, sess, access_token) /\ token_lock' = "free"
    ELSE IF sess = "none"
    THEN ApiReturns(c, "api_error") /\ token_lock' = "free" /\ UNCHANGED sent_token
    ELSE IF sess = "closed"
    THEN ApiReturns(c, "raised") /\ token_lock' = "free" /\ UNCHANGED sent_token
    ELSE /\ token_lock' = "client"
         /\ ApiGoto(c, "token_wait")
         /\ UNCHANGED <<call_result, sent_token>>

\* an _ensure_access_token that does not take the lock
EnsureAccessToken_NoLock(c, op, sess) ==
    /\ EnsureLocked(c, op, sess)
    /\ waited' = waited \ {c}

\* _ensure_access_token: "async with self._token_lock"
EnsureAccessToken(c, op, sess) ==
    IF token_lock # "free"
    THEN /\ ApiGoto(c, "lock_wait")
         /\ waited' = waited \cup {c}
         /\ UNCHANGED <<token_lock, call_result, sent_token>>
    ELSE /\ EnsureLocked(c, op, sess)
         /\ waited' = waited \ {c}

\* a _make_request that sends the GET with the cached token as it is
MakeRequest_NoEnsure(c) ==
    /\ sent_token' = [sent_token EXCEPT ![c] = access_token]
    /\ ApiGoto(c, "get_wait")
    /\ waited' = waited \ {c}
    /\ UNCHANGED <<token_lock, call_result>>

\* _make_request up to its first suspension
MakeRequest(c) ==
    IF session = "none"
    THEN /\ ApiReturns(c, "api_error")
         /\ waited' = waited \ {c}
         /\ UNCHANGED <<token_lock, sent_token>>
    ELSE EnsureAccessToken(c, "get_response", session)

\* a caller calls initialize()
ApiInitialize(c) ==
    /\ call_pc[c] = "idle"
    /\ call_op' = [call_op EXCEPT ![c] = "initialize"]
    /\ call_null' = call_null \ {c}
    /\ IF session = "none"
       THEN /\ session' = "open"
            /\ EnsureAccessToken(c, "initialize", "open")
       ELSE /\ ApiReturns(c, "ok")
            /\ waited' = waited \ {c}
            /\ UNCHANGED <<session, token_lock, sent_token>>
    /\ UNCHANGED <<access_token, issued, rejected>>
    /\ UNCHANGED <<sessionVars, formatVars>>

\* a caller calls _get_response
ApiGetResponse(c) ==
    /\ call_pc[c] = "idle"
    /\ call_op' = [call_op EXCEPT ![c] = "get_response"]
    /\ call_null' = IF access_token = None THEN call_null \cup {c}
                                           ELSE call_null \ {c}
    /\ MakeRequest(c)
    /\ UNCHANGED <<session, access_token, issued, rejected>>
    /\ UNCHANGED <<sessionVars, formatVars>>

\* _token_lock was released and a caller that waited for it acquires it
ApiLockAcquired(c) ==
    /\ call_pc[c] = "lock_wait"
    /\ token_lock = "free"
    /\ EnsureLocked(c, call_op[c], session)
    /\ UNCHANGED <<call_op, call_null, waited, session, access_token, issued,
                   rejected>>
    /\ UNCHANGED <<sessionVars, formatVars>>

\* _get_access_token: the token request ends, the lock is released and the
\* call goes on
ApiTokenResponse(c) ==
    /\ call_pc[c] = "token_wait"
    /\ token_lock' = "free"
    /\ \E t \in TokenOutcomes :
         IF t = "ok"
         THEN /\ issued < MaxTokens
              /\ issued' = issued + 1
              /\ access_token' = TokenNames[issued + 1]
              /\ AfterEnsure(c, call_op[c], session, TokenNames[issued + 1])
         ELSE /\ ApiReturns(c, IF t = "client_error" THEN "api_error"
                                                       ELSE "raised")
              /\ UNCHANGED <<access_token, issued, sent_token>>
    /\ UNCHANGED <<call_op, call_null, waited, session, rejected>>
    /\ UNCHANGED <<sessionVars, formatVars>>

\* _get_response: the GET is answered.  A status that raise_for_status rejects
\* (401 included) becomes TwitchAPIError; access_token is left as it is.
ApiGetAnswered(c) ==
    /\ call_pc[c] = "get_wait"
    /\ \E st \in GetStatuses :
         /\ ApiReturns(c, IF st = "ok" THEN "ok"
                          ELSE IF st = "timeout" THEN "raised" ELSE "api_error")
         /\ rejected' = IF st = "unauthorized"
                        THEN rejected \cup {sent_token[c]} ELSE rejected
    /\ UNCHANGED <<call_op, call_null, waited, sent_token, issued, apiVars>>
    /\ UNCHANGED <<sessionVars, formatVars>>

\* a caller calls close()
ApiClose(c) ==
    /\ call_pc[c] = "idle"
    /\ call_op' = [call_op EXCEPT ![c] = "close"]
    /\ call_null' = call_null \ {c}
    /\ waited' = waited \ {c}
    /\ IF session = "none"
       THEN ApiReturns(c, "ok") /\ UNCHANGED <<session, access_token>>
       ELSE \/ /\ session' = "none"
               /\ access_token' = None
               /\ ApiReturns(c, "ok")
            \/ /\ session' = "closed"
               /\ ApiGoto(c, "closing")
               /\ UNCHANGED <<access_token, call_result>>
    /\ UNCHANGED <<token_lock, sent_token, issued, rejected>>
    /\ UNCHANGED <<sessionVars, formatVars>>

\* close(): "await self.session.close()" has returned
ApiCloseAwaited(c) ==
    /\ call_pc[c] = "closing"
    /\ session' = "none"
    /\ access_token' = None
    /\ ApiReturns(c, "ok")
    /\ UNCHANGED <<call_op, call_null, waited, token_lock, sent_token, issued,
                   rejected>>
    /\ UNCHANGED <<sessionVars, formatVars>>

\* ------------------------------------------ format_display_message
\* A str is a sequence of characters; the text " has started streaming: " and
\* the title "Coding" are kept as single elements.

\* the characters of the names: a letter in both cases, a letter, a digit
Chars == {"a", "A", "b", "1"}

\* str.lower() on one character
LowerChar(ch) == IF ch = "A" THEN "a" ELSE ch

\* str.lower()
Lower(str) == [i \in 1..Len(str) |-> LowerChar(str[i])]

\* the strs of length up to n
Strings(n) == UNION {[1..k -> Chars] : k \in 0..n}

Titles == {<<>>, <<"Coding">>}

\* the revisions of format_display_message
FormatRevisions == {"sn", "app", "regular_execution"}

\* base_format = f" has started streaming: {stream_title}"
BaseFormat(title) == <<" has started streaming: ">> \o title

\* the test of format_display_message: "username.lower() == display_name.lower()"
\* in stream_notification.py and main.py, "username == display_name" in
\* regular_execution/main.py
SameName(rev, u, d) ==
    IF rev = "regular_execution" THEN u = d ELSE Lower(u) = Lower(d)

\* format_display_message(username, display_name, stream_title)
FormatDisplayMessage(rev, u, d, title) ==
    IF SameName(rev, u, d)
    THEN d \o BaseFormat(title)
    ELSE (d \o <<"(">> \o u \o <<")">>) \o BaseFormat(title)

\* one call of format_display_message returns
FormatCall ==
    /\ ~fmt_done
    /\ message' = FormatDisplayMessage(fmt_revision, username, display_name,
                                       stream_title)
    /\ fmt_done' = TRUE
    /\ UNCHANGED <<fmt_revision, username, display_name, stream_title>>
    /\ UNCHANGED <<sessionVars, apiVars, clientVars>>

\* ------------------------------------------------------- specification

SessionInit ==
    /\ variant \in Variants
    /\ display_format \in (IF variant = "sn" THEN NotificationFormat
                                             ELSE {"notification"})
    /\ compiled \in BOOLEAN
    /\ no_terminal \in BOOLEAN
    /\ is_running = TRUE
    /\ cleanup_tasks = <<>>
    /\ cleanup_compelete_event = FALSE
    /\ session = "none"
    /\ access_token = None
    /\ token_lock = "free"
    /\ main_pc = "start"
    /\ run_pc = "none"
    /\ run_exc = FALSE
    /\ poller_pc = "none"
    /\ poller_result = "none"
    /\ must_cancel = FALSE
    /\ cl_pc = [c \in Callers |-> "idle"]
    /\ handlers_installed = FALSE
    /\ nsig = 0
    /\ lookup = "unsent"
    /\ shown = {}
    /\ found_style = "none"
    /\ terminal = "none"
    /\ polls = 0
    /\ quit_polls = -1
    /\ stream_response = "unsent"
    /\ stream_exc = "none"
    /\ stream_result = <<None, None>>
    /\ obs = <<>>
    /\ notes = {}
    /\ note_style = "none"
    /\ note_outcome = "none"
    /\ interval = 0
    /\ cancel_count = 0
    /\ close_count = 0
    /\ set_count = 0
    /\ call_pc = [c \in ApiCallers |-> "idle"]
    /\ call_op = [c \in ApiCallers |-> "none"]
    /\ call_result = [c \in ApiCallers |-> "none"]
    /\ call_null = {}
    /\ waited = {}
    /\ sent_token = [c \in ApiCallers |-> None]
    /\ issued = 0
    /\ rejected = {}

\* no call of format_display_message is looked at
FormatIdle ==
    /\ fmt_revision = "sn"
    /\ username = <<>>
    /\ display_name = <<>>
    /\ stream_title = <<>>
    /\ message = <<>>
    /\ fmt_done = FALSE

Init == SessionInit /\ FormatIdle

Next ==
    \/ MainStart
    \/ SetupStart
    \/ MainRunReturned
    \/ SetupRunReturned
    \/ MainEventSet
    \/ MainEnd
    \/ RunInitialize
    \/ RunTokenResponse
    \/ RunInput
    \/ CheckStreamerExistenceRequest
    \/ CheckStreamerExistenceResponse
    \/ CheckStreamerExistenceImage
    \/ CheckStreamerExistenceNotified
    \/ RunCreateStatusTask
    \/ RunNotFound
    \/ RunStatusTaskDone
    \/ CheckStreamStatusLoop
    \/ CheckStreamStatusResponse
    \/ CheckStreamStatusNotified
    \/ CheckStreamStatusStreaming
    \/ PollerCancelled
    \/ HandleSignal
    \/ \E k \in SignalTasks : CleanupTaskStart(k)
    \/ \E c \in Callers : CleanupTaskAwaited(c)
    \/ \E c \in Callers : CleanupCloseAwaited(c)

Spec == Init /\ [][Next]_vars

\* The event loop runs every task that is ready: a task whose cancellation was
\* requested is resumed, and so are the tasks that await a task that is done.
FairSpec ==
    /\ Spec
    /\ WF_vars(PollerCancelled)
    /\ WF_vars(RunStatusTaskDone)

\* the session with a user who enters the quit input
QuitNext ==
    \/ Next
    \/ QuitInput

QuitSpec == Init /\ [][QuitNext]_vars

\* one call of format_display_message on arguments of bounded length
FormatInit ==
    /\ SessionInit
    /\ variant = "sn"
    /\ display_format = "notification"
    /\ compiled = FALSE
    /\ no_terminal = FALSE
    /\ fmt_revision \in FormatRevisions
    /\ username \in Strings(MaxNameLen)
    /\ display_name \in Strings(MaxNameLen)
    /\ stream_title \in Titles
    /\ message = <<>>
    /\ fmt_done = FALSE

FormatNext == FormatCall

FormatSpec == FormatInit /\ [][FormatNext]_vars

\* a TwitchAPI object after __init__, called directly by ApiCallers
ApiInit ==
    /\ SessionInit
    /\ FormatIdle
    /\ variant = "sn"
    /\ display_format = "notification"
    /\ compiled = FALSE
    /\ no_terminal = FALSE

ApiNext ==
    \/ \E c \in ApiCallers : ApiInitialize(c)
    \/ \E c \in ApiCallers : ApiGetResponse(c)
    \/ \E c \in ApiCallers : ApiLockAcquired(c)
    \/ \E c \in ApiCallers : ApiTokenResponse(c)
    \/ \E c \in ApiCallers : ApiGetAnswered(c)
    \/ \E c \in ApiCallers : ApiClose(c)
    \/ \E c \in ApiCallers : ApiCloseAwaited(c)

ApiSpec == ApiInit /\ [][ApiNext]_vars

\* ------------------------------------------------------------- lemmas

TypeOK ==
    /\ variant \in Variants
    /\ display_format \in NotificationFormat
    /\ is_running \in BOOLEAN
    /\ cleanup_tasks \in {<<>>, <<"status_task">>}
    /\ cleanup_compelete_event \in BOOLEAN
    /\ session \in {"none", "open", "closed"}
    /\ access_token \in {None, "tok"}
    /\ token_lock \in {"free", "run"}
    /\ main_pc \in {"start", "launching", "await_run", "await_event",
                    "closing_terminal", "done"}
    /\ run_pc \in {"none", "created", "init_token_wait", "input_wait",
                   "exist_yield", "exist_get_wait", "exist_img_wait",
                   "exist_notify_wait", "exist_fail_yield", "exist_found_yield",
                   "exist_nf_yield",
                   "await_status_task", "cleanup", "done"}
    /\ poller_pc \in {"none", "ready", "get_wait", "notify_wait",
                      "notify_fail_yield", "msg_yield", "sleep", "done"}
    /\ poller_result \in {"none", "returned", "cancelled", "raised"}
    /\ cl_pc \in [Callers -> {"idle", "pending", "await_task", "closing", "done"}]
    /\ nsig \in 0..MaxSignals
    /\ polls \in 0..MaxPolls
    /\ obs \in Seq(BOOLEAN)
    /\ Len(obs) <= polls
    /\ notes \subseteq 0..(MaxPolls - 1)
    /\ interval \in {0, CHECK_INTERVAL, STREAMING_INTERVAL}

\* every request of a session finds the token of initialize(): the branch of
\* _ensure_access_token that requests a token is taken by initialize() alone
TokenHeldWhileOpen ==
    (session = "open" /\ run_pc \notin {"none", "created", "init_token_wait", "done"})
        => (access_token = "tok" /\ token_lock = "free")

\* ------------------------------------------------------------- claims

\* the observation sequence of the edge-triggering scenario
EdgeScenario == <<FALSE, FALSE, TRUE, TRUE, FALSE, TRUE>>

\* observation i (counted from 0) was live
LiveAt(i) == obs[i + 1]

CleanupInProgress == \E c \in Callers : cl_pc[c] \in {"await_task", "closing"}

\* some cleanup() invocation has been entered
CleanupEntered == \E c \in Callers : cl_pc[c] \in {"await_task", "closing", "done"}

\* C2: cleanup() is idempotent under any number of invocations, overlapping ones
\* included: the registered task is cancelled at most once, the API session is
\* closed at most once, the completion event is set at most once, and it has
\* been set exactly once when every entered invocation has returned.
C2_CleanupIdempotent ==
    /\ cancel_count <= 1
    /\ close_count <= 1
    /\ set_count <= 1
    /\ (CleanupEntered /\ ~CleanupInProgress) => set_count = 1

\* run()'s cleanup() call has returned while the cleanup() of a signal task is
\* still suspended, and a second signal task has run cleanup() as well
C2_Witness ==
    /\ cl_pc[RunCaller] = "done"
    /\ cl_pc[1] \in {"await_task", "closing"}
    /\ cl_pc[2] = "done"
    /\ cancel_count = 1

\* C3: once is_running is false no get_stream_by_name call is started and no
\* stream-start notification is sent, in every interleaving of the poller with
\* cleanup.
C3_NothingAfterStop ==
    [][~is_running' => (polls' = polls /\ notes' = notes)]_vars

\* cleanup ran (from a signal task) during the existence check, the poller task
\* was created afterwards and ended at its loop test without a call
C3_Witness ==
    /\ ~is_running
    /\ cl_pc[1] = "done"
    /\ poller_result = "returned"
    /\ polls = 0

\* C4: is_running starts true, only cleanup() writes it, and it never changes
\* from false back to true.
C4_IsRunningMonotonic ==
    /\ is_running = TRUE
    /\ [][is_running' # is_running =>
            /\ is_running
            /\ ~is_running'
            /\ \E c \in Callers : /\ cl_pc[c] \in {"idle", "pending"}
                                  /\ cl_pc'[c] \in {"await_task", "closing", "done"}
         ]_vars

\* the flag is false and a task was registered after that
C4_Witness ==
    /\ ~is_running
    /\ cleanup_tasks = <<"status_task">>
    /\ cancel_count = 0
    /\ main_pc = "done"

\* C5: when the users lookup returns an empty result set, run() ends without
\* creating the poller task and get_stream_by_name is never called.
C5_NotFoundShortCircuit ==
    lookup = "empty" =>
        /\ poller_pc = "none"
        /\ cleanup_tasks = <<>>
        /\ polls = 0
        /\ "found" \notin shown
        /\ run_pc \in {"exist_nf_yield", "cleanup", "done"}

C5_Witness ==
    /\ lookup = "empty"
    /\ "not_found" \in shown
    /\ run_pc = "done"
    /\ cleanup_compelete_event

\* C6: every run() that is entered performs the effects of cleanup() exactly
\* once and sets the completion event, whichever way the session ends, a failed
\* credential acquisition in initialize() included.
C6_RunAlwaysCleansUp ==
    run_pc = "done" =>
        /\ ~is_running
        /\ ~CleanupInProgress =>
              /\ cleanup_compelete_event
              /\ set_count = 1
              /\ session = "none"

\* C7: every registered task has finished before the API session is closed, the
\* session is closed before the completion event is set, and the session is
\* never closed while a registered poller task is pending.
C7_CleanupOrder ==
    /\ (close_count > 0 /\ cleanup_tasks # <<>>) => poller_pc = "done"
    /\ cleanup_compelete_event => session = "none"

\* C8: a poller that sleeps after a live observation sleeps STREAMING_INTERVAL,
\* one that sleeps after an offline observation sleeps CHECK_INTERVAL, and no
\* other interval is used.
C8_IntervalSelection ==
    /\ interval \in {0, CHECK_INTERVAL, STREAMING_INTERVAL}
    /\ poller_pc = "sleep" =>
          /\ interval \in {CHECK_INTERVAL, STREAMING_INTERVAL}
          /\ (stream_response # "timeout" /\ note_outcome # "os_error") =>
                interval = IF obs[Len(obs)] THEN STREAMING_INTERVAL
                                            ELSE CHECK_INTERVAL
    /\ poller_pc \in {"notify_wait", "notify_fail_yield", "msg_yield"} =>
          obs[Len(obs)]

C8_Witness ==
    /\ poller_pc = "sleep"
    /\ obs = <<FALSE, TRUE>>
    /\ note_outcome = "ok"
    /\ interval = STREAMING_INTERVAL

\* C9: what the poller receives from get_stream_by_name for a failed request
\* differs from what it receives for an empty streams list.
C9_OfflineDistinctFromError ==
    stream_response = "client_error" =>
        stream_result # GetStreamByName([status |-> "ok", data |-> <<>>])

\* C10: "<login> not found." is reported only when the users endpoint returned
\* zero results; a failed lookup is not reported as not-found.
C10_NotFoundOnlyOnEmptyLookup ==
    "not_found" \in shown => lookup = "empty"


\* C11: a token the service answered with an authorization failure is cleared
\* from the client: it is not kept as the cached access token, and no request
\* in flight carries a token that was rejected before.
C11_RejectedTokenCleared ==
    /\ access_token \notin rejected
    /\ \A c \in ApiCallers : call_pc[c] = "get_wait" => sent_token[c] \notin rejected

\* number of token requests in flight
TokenRequestsInFlight ==
    Cardinality({c \in ApiCallers : call_pc[c] = "token_wait"})

\* C12: at most one token request is in flight at any time, and a token request
\* is sent only when no token is cached.
C12_TokenAcquisitionSerialized ==
    /\ [](TokenRequestsInFlight <= 1)
    /\ [][\A c \in ApiCallers :
            (call_pc[c] # "token_wait" /\ call_pc'[c] = "token_wait")
                => access_token = None]_vars

\* a caller waited for the lock while another caller's token request was in
\* flight, and sent its GET with the one token that request obtained
C12_Witness ==
    \E c \in ApiCallers :
        /\ c \in waited
        /\ call_op[c] = "get_response"
        /\ call_pc[c] = "get_wait"
        /\ issued = 1
        /\ sent_token[c] = TokenNames[1]

\* C13: every authenticated GET carries a non-null bearer token; a call that
\* begins with no cached token obtains one (or fails) before its GET is sent.
C13_BearerNeverNull ==
    \A c \in ApiCallers : call_pc[c] = "get_wait" => sent_token[c] # None

\* a call that began with the session open and no cached token has its GET in
\* flight
C13_Witness ==
    \E c \in ApiCallers :
        /\ c \in call_null
        /\ call_pc[c] = "get_wait"
        /\ sent_token[c] # None

\* the last get_stream_by_name call failed (transport error, non-2xx status
\* or timeout)
LastPollFailed == stream_response \in {"client_error", "timeout"}

\* C14: a failed get_stream_by_name call inside the monitoring loop does not end
\* the poller (and with it the session) and produces no notification: the
\* poller sleeps CHECK_INTERVAL and polls again.
C14_FailedPollIsTransient ==
    LastPollFailed =>
        /\ poller_result # "raised"
        /\ poller_pc \in {"sleep", "get_wait", "done"}
        /\ interval = CHECK_INTERVAL
        /\ ~run_exc

\* C15: a failure of the notifier during a stream-start notification does not
\* terminate the poller: after it the poller is at (or on its way to) its sleep
\* and has not ended by raising.
C15_NotifierFailureContained ==
    note_outcome \in (NotifierOutcomes \ {"ok"}) =>
        /\ poller_result # "raised"
        /\ poller_pc \in {"notify_fail_yield", "msg_yield", "sleep", "get_wait",
                         "done"}

\* C16: the poller task ends only through cancellation or through is_running
\* becoming false; an exception other than cancellation raised inside a loop
\* iteration does not end it.
C16_PollerEndsOnlyByStop ==
    poller_pc = "done" =>
        \/ poller_result = "cancelled"
        \/ poller_result = "returned" /\ ~is_running

\* C17: a get_stream_by_name call that timed out reaches the poller as the
\* result of a failed request (TwitchAPIError, which get_stream_by_name turns
\* into the failure value), not as another exception, and the poller continues.
C17_TimeoutIsApiError ==
    stream_response = "timeout" =>
        /\ stream_exc = "none"
        /\ stream_result = <<None, None>>
        /\ poller_result # "raised"

\* C19: run() waits for the poller and for a quit-input listener, whichever
\* finishes first, so a quit input entered while the poller polls or sleeps
\* gets the poller cancelled and cleanup performed: the poller does not go
\* through a whole further sleep into a second call after the input.
C19_QuitInputStopsPoller ==
    quit_polls >= 0 => quit_polls <= 1

\* a cancellation of the poller task is requested and not yet delivered
CancelPending == must_cancel /\ poller_pc \notin {"none", "done"}

\* C18: a cancellation delivered at any suspension point of check_stream_status
\* ends the poller task, as cancelled, without a further poll, notification or
\* sleep, and run() then proceeds to cleanup.
C18_CancellationEndsPoller ==
    /\ [][CancelPending =>
            /\ polls' = polls
            /\ notes' = notes
            /\ interval' = interval
            /\ poller_pc' \in {poller_pc, "done"}
            /\ poller_pc' = "done" => poller_result' = "cancelled"]_vars
    /\ CancelPending ~> (poller_result = "cancelled")
    /\ (poller_result = "cancelled") ~> (run_pc \in {"cleanup", "done"})

\* the poller was cancelled during the STREAMING_INTERVAL sleep that followed
\* its first, live, poll, and run() has gone through cleanup
C18_Witness ==
    /\ poller_result = "cancelled"
    /\ polls = 1
    /\ obs = <<TRUE>>
    /\ interval = STREAMING_INTERVAL
    /\ run_pc = "done"
    /\ cleanup_compelete_event

\* two strs are equal when the case of their letters is ignored
EqualIgnoringCase(u, d) ==
    /\ Len(u) = Len(d)
    /\ \A i \in 1..Len(u) : u[i] = d[i] \/ {u[i], d[i]} = {"a", "A"}

\* C20: for every (login, displayName, title) the message is
\* "{displayName} has started streaming: {title}" when login and displayName are
\* equal ignoring case and "{displayName}({login}) has started streaming: {title}"
\* otherwise.
C20_FormatMessage ==
    fmt_done =>
        message = IF EqualIgnoringCase(username, display_name)
                  THEN display_name \o <<" has started streaming: ">> \o stream_title
                  ELSE display_name \o <<"(">> \o username \o <<")">>
                           \o <<" has started streaming: ">> \o stream_title

\* C21: the output style follows the user's selection for every message of the
\* session: the "found" message of the existence check and each stream-start
\* message are sent as a system notification when the user selected
\* NotificationFormat.notification and as a dialog otherwise.
C21_StyleFollowsSelection ==
    /\ found_style # "none" => found_style = display_format
    /\ note_style # "none" => note_style = display_format

\* the users lookup of check_streamer_existence failed (transport error,
\* non-2xx status or timeout)
LookupFailed == lookup \in {"client_error", "timeout"}

\* C22: the existence check is made at most once per session and never retried:
\* the users request is sent once, its answer is final, and when it failed no
\* poller task is created, get_stream_by_name is never called and run() ends
\* through cleanup().
C22_ExistenceCheckedOnce ==
    /\ [][(run_pc # "exist_get_wait" /\ run_pc' = "exist_get_wait")
              => lookup = "unsent"]_vars
    /\ [][lookup # "unsent" => lookup' = lookup]_vars
    /\ [](LookupFailed =>
            /\ poller_pc = "none"
            /\ cleanup_tasks = <<>>
            /\ polls = 0
            /\ run_pc \in {"exist_nf_yield", "cleanup", "done"}
            /\ run_pc = "done" => ~is_running)

\* the users request timed out and the session ended through cleanup without
\* a poll
C22_Witness ==
    /\ lookup = "timeout"
    /\ run_pc = "done"
    /\ cl_pc[RunCaller] = "done"
    /\ cleanup_compelete_event
    /\ polls = 0

\* C23: nothing is suppressed at startup: the first get_stream_by_name call is
\* made as soon as the poller task runs, with no sleep before it, and when that
\* first observation is live the stream-start notification is sent although the
\* "found" message was sent just before.
C23_NoSuppressionAtStartup ==
    /\ [][(polls = 0 /\ polls' = 1) => (poller_pc = "ready" /\ interval = 0)]_vars
    /\ []((Len(obs) >= 1 /\ obs[1]) =>
            /\ 0 \in notes
            /\ "found" \in shown
            /\ found_style # "none")

\* the first observation was live: the "found" message and the stream-start
\* notification were both sent
C23_Witness ==
    /\ polls = 1
    /\ obs = <<TRUE>>
    /\ notes = {0}
    /\ "found" \in shown
    /\ found_style # "none"
    /\ note_style # "none"

\* close() was called on an open session and every such call has returned
CloseCompleted ==
    /\ close_count >= 1
    /\ \A c \in Callers : cl_pc[c] # "closing"

LaunchOnlyBuild == compiled /\ ~no_terminal

\* C25: in a compiled build started without --no-terminal the process does
\* nothing but launch the host terminal and return: no API session is opened,
\* no token is requested, no lookup or poll is made, run() is not created and
\* neither cleanup() nor the terminal-close step runs; run() exists only in the
\* other builds.
C25_LaunchOnlyWithoutCore ==
    /\ LaunchOnlyBuild =>
          /\ main_pc \in {"start", "launching", "done"}
          /\ run_pc = "none"
          /\ poller_pc = "none"
          /\ session = "none"
          /\ access_token = None
          /\ token_lock = "free"
          /\ lookup = "unsent"
          /\ polls = 0
          /\ is_running
          /\ \A c \in Callers : cl_pc[c] = "idle"
          /\ ~cleanup_compelete_event
          /\ terminal \in {"none", "launched"}
    /\ run_pc # "none" => ~LaunchOnlyBuild

\* the compiled build without the flag has launched the terminal and returned
C25_Witness ==
    /\ LaunchOnlyBuild
    /\ main_pc = "done"
    /\ terminal = "launched"
    /\ run_pc = "none"

\* the last result of get_stream_by_name carries a title and no display name,
\* or a display name and no title
PartialResult == Truthy(stream_result[1]) # Truthy(stream_result[2])

\* C26: an observation is live only when display name and title are both
\* non-empty: a result with one of the two missing sends no notification and
\* the poller sleeps CHECK_INTERVAL, as for an offline observation.
C26_PartialResultIsOffline ==
    PartialResult =>
        /\ Len(obs) >= 1
        /\ ~obs[Len(obs)]
        /\ (Len(obs) - 1) \notin notes
        /\ note_outcome = "none"
        /\ interval = CHECK_INTERVAL
        /\ poller_pc \in {"sleep", "get_wait", "done"}

\* the first result had a title and an empty display name: nothing was sent and
\* the poller sleeps CHECK_INTERVAL
C26_Witness ==
    /\ stream_result = <<"", "Coding">>
    /\ obs = <<FALSE>>
    /\ notes = {}
    /\ poller_pc = "sleep"
    /\ interval = CHECK_INTERVAL

\* C27: a broadcaster whose users lookup returned a non-empty result is reported
\* as found, whatever happens to the download of the profile image; it is never
\* turned into "<login> not found.".
C27_FoundDespiteImageFailure ==
    lookup = "found" => "not_found" \notin shown

\* C28: the poller never busy-loops: the first get_stream_by_name call is made
\* from the start of the task, every later call is made out of a sleep of
\* CHECK_INTERVAL or STREAMING_INTERVAL, and a sleep begins only after a call
\* was made since the previous sleep, on the paths that caught an exception as
\* on the others.
C28_OneSleepBetweenPolls ==
    /\ [][polls' # polls =>
            /\ polls' = polls + 1
            /\ \/ polls = 0 /\ poller_pc = "ready"
               \/ /\ polls > 0
                  /\ poller_pc = "sleep"
                  /\ interval \in {CHECK_INTERVAL, STREAMING_INTERVAL}]_vars
    /\ [][(poller_pc' = "sleep" /\ (poller_pc # "sleep" \/ polls' # polls)) =>
            /\ interval' \in {CHECK_INTERVAL, STREAMING_INTERVAL}
            /\ \/ polls' = polls + 1
               \/ poller_pc \in {"get_wait", "msg_yield"}]_vars
    /\ [][(poller_pc = "sleep" /\ poller_pc' # "sleep") =>
            (polls' = polls + 1 \/ poller_pc' = "done")]_vars

\* main.py: a call timed out, the handler slept CHECK_INTERVAL and the next
\* call was made
C28_Witness ==
    /\ variant = "app"
    /\ stream_exc = "TimeoutError"
    /\ polls = 2
    /\ poller_pc = "get_wait"
    /\ interval = CHECK_INTERVAL

\* C29: the step that closes the host terminal runs only after run() has
\* returned and the completion event is set, hence after the poller task has
\* finished and the API session was closed, also when cleanup was done by a
\* signal's task and run()'s own cleanup() call returned at its guard.
C29_TerminalClosedLast ==
    terminal = "closed" =>
        /\ run_pc = "done"
        /\ ~run_exc
        /\ cleanup_compelete_event
        /\ poller_pc \in {"none", "done"}
        /\ session = "none"
        /\ access_token = None
        /\ \A c \in Callers : cl_pc[c] \notin {"await_task", "closing"}

\* a signal's task cancelled the poller and closed the session, run()'s own
\* cleanup() call returned at its guard, and the terminal was closed afterwards
C29_Witness ==
    /\ terminal = "closed"
    /\ cancel_count = 1
    /\ poller_result = "cancelled"
    /\ cl_pc[1] = "done"
    /\ cl_pc[RunCaller] = "done"
    /\ set_count = 1

\* C30: whenever the completion event is set, every poller task that was
\* created is done: no poller task is created or left pending after cleanup has
\* completed.
C30_NoPollerAfterCleanup ==
    cleanup_compelete_event => poller_pc \in {"none", "done"}

C32_FailedTokenIsRetriable ==
    /\ [][\A c \in ApiCallers :
            (call_pc[c] = "token_wait" /\ call_pc'[c] # "token_wait"
                 /\ issued' = issued)
              => (access_token' = None /\ token_lock' = "free"
                    /\ call_result'[c] \in {"api_error", "raised"})]_vars
    /\ []((\A c \in ApiCallers : call_pc[c] # "token_wait") => token_lock = "free")
    /\ [][\A c \in ApiCallers :
            (/\ access_token = None
             /\ session = "open"
             /\ token_lock = "free"
             /\ call_pc[c] \in {"idle", "lock_wait"}
             /\ call_op'[c] = "get_response"
             /\ (call_pc'[c] # call_pc[c] \/ call_result'[c] # call_result[c]))
              => call_pc'[c] = "token_wait"]_vars

\* the token request of one caller's initialize() failed; another caller's
\* request then found no token and has a new token request in flight
C32_Witness ==
    \E c, d \in ApiCallers :
        /\ call_op[d] = "initialize"
        /\ call_pc[d] = "idle"
        /\ call_result[d] = "api_error"
        /\ call_op[c] = "get_response"
        /\ call_pc[c] = "token_wait"
        /\ access_token = None
        /\ issued = 0

\* the token request inside initialize() failed and the exception has left run()
InitializeFailed ==
    /\ run_pc = "done"
    /\ run_exc
    /\ ~handlers_installed

\* C33: initialize() does not leak a session: once a failure of the token
\* acquisition inside initialize() has propagated, the client holds no open
\* HTTP session.
C33_InitializeLeaksNoSession ==
    InitializeFailed => session # "open"

====
